---------------------------- MODULE Spec2Model ----------------------------
(***************************************************************************)
(* Model of calculator.py: the three arithmetic functions and the          *)
(* interactive loop of main().                                              *)
(*                                                                         *)
(* A line of standard input is a sequence of one-character strings, so     *)
(* that float() can be modelled by what it does to the characters.  Text   *)
(* written to standard output is a TLA+ string.                            *)
(*                                                                         *)
(* A Python float is modelled by a record [k, neg, mag]:                   *)
(*   k = "fin"  a finite double of integer value, sign neg, magnitude mag  *)
(*              (signed zero is kept: [k |-> "fin", neg |-> TRUE, mag |-> 0]*)
(*              is -0.0);                                                  *)
(*   k = "inf"  an infinity of sign neg;                                   *)
(*   k = "nan"  a NaN.                                                     *)
(* Integer-valued doubles of magnitude below 2^53 add, subtract and        *)
(* multiply exactly, so on this fragment IEEE-754 arithmetic is integer    *)
(* arithmetic plus the rules for signed zero, infinities and NaN.  The     *)
(* input lines of the model (Lines) all lie in this fragment.              *)
(***************************************************************************)
EXTENDS Integers, Sequences, FiniteSets, TLC

\* The longest input sequence explored: the number of lines standard input
\* can deliver before it is exhausted.
MaxReads == 4

\* The longest input sequence explored over the smaller set DeepLines.
MaxDeepReads == 6

-----------------------------------------------------------------------------
(* Characters and lines *)

DigitChars == <<"0", "1", "2", "3", "4", "5", "6", "7", "8", "9">>

IsDigit(c) == \E i \in 1..10 : DigitChars[i] = c

DigitVal(c) == (CHOOSE i \in 1..10 : DigitChars[i] = c) - 1

\* str.strip() inside float(): the whitespace characters of the model.
IsSpace(c) == c \in {" ", "\t"}

\* float() matches "inf", "infinity" and "nan" without regard to case.
Lower(c) ==
    CASE c = "I" -> "i"
      [] c = "N" -> "n"
      [] c = "F" -> "f"
      [] c = "A" -> "a"
      [] c = "T" -> "t"
      [] c = "Y" -> "y"
      [] OTHER -> c

LowerSeq(s) == [i \in 1..Len(s) |-> Lower(s[i])]

RECURSIVE LStrip(_)
LStrip(s) == IF s # <<>> /\ IsSpace(Head(s)) THEN LStrip(Tail(s)) ELSE s

RECURSIVE RStrip(_)
RStrip(s) ==
    IF s # <<>> /\ IsSpace(s[Len(s)]) THEN RStrip(SubSeq(s, 1, Len(s) - 1)) ELSE s

Strip(s) == RStrip(LStrip(s))

-----------------------------------------------------------------------------
(* Python floats *)

Fin(neg, mag) == [k |-> "fin", neg |-> neg, mag |-> mag]
Inf(neg) == [k |-> "inf", neg |-> neg, mag |-> 0]
NaN == [k |-> "nan", neg |-> FALSE, mag |-> 0]

\* A local of main() that no assignment has bound yet.
Unbound == [k |-> "unbound", neg |-> FALSE, mag |-> 0]

\* The integer a finite float stands for.
IntOf(v) == IF v.neg THEN 0 - v.mag ELSE v.mag

Abs(n) == IF n < 0 THEN 0 - n ELSE n

\* IEEE-754 negation: flips the sign, of zero and infinity too.
FNeg(v) == IF v.k = "nan" THEN NaN ELSE [v EXCEPT !.neg = ~v.neg]

\* IEEE-754 addition, round to nearest, on the fragment.
FAdd(a, b) ==
    IF a.k = "nan" \/ b.k = "nan" THEN NaN
    ELSE IF a.k = "inf" /\ b.k = "inf"
         THEN (IF a.neg = b.neg THEN a ELSE NaN)
    ELSE IF a.k = "inf" THEN a
    ELSE IF b.k = "inf" THEN b
    ELSE LET s == IntOf(a) + IntOf(b) IN
         IF s = 0
         THEN Fin(a.mag = 0 /\ b.mag = 0 /\ a.neg /\ b.neg, 0)
         ELSE Fin(s < 0, Abs(s))

\* IEEE-754 subtraction: x - y is x + (-y).
FSub(a, b) == FAdd(a, FNeg(b))

\* IEEE-754 multiplication on the fragment.
FMul(a, b) ==
    IF a.k = "nan" \/ b.k = "nan" THEN NaN
    ELSE IF a.k = "inf" \/ b.k = "inf"
         THEN (IF (a.k = "fin" /\ a.mag = 0) \/ (b.k = "fin" /\ b.mag = 0)
               THEN NaN
               ELSE Inf(a.neg # b.neg))
    ELSE Fin(a.neg # b.neg, a.mag * b.mag)

-----------------------------------------------------------------------------
(* float(str): parsing an operand *)

IsDigits(s) == s # <<>> /\ \A i \in 1..Len(s) : IsDigit(s[i])

RECURSIVE DigitsVal(_)
DigitsVal(s) ==
    IF s = <<>> THEN 0
    ELSE 10 * DigitsVal(SubSeq(s, 1, Len(s) - 1)) + DigitVal(s[Len(s)])

\* The text after the optional sign, without the sign.
Unsigned(s) == IF s # <<>> /\ Head(s) \in {"+", "-"} THEN Tail(s) ELSE s

HasMinus(s) == s # <<>> /\ Head(s) = "-"

\* The position of the decimal point in s, or 0.
DotAt(s) == IF \E i \in 1..Len(s) : s[i] = "."
            THEN CHOOSE i \in 1..Len(s) : s[i] = "."
            ELSE 0

IntPart(s) == IF DotAt(s) = 0 THEN s ELSE SubSeq(s, 1, DotAt(s) - 1)

FracPart(s) == IF DotAt(s) = 0 THEN <<>> ELSE SubSeq(s, DotAt(s) + 1, Len(s))

\* A decimal literal without exponent: digits, with an optional point that
\* has digits on at least one side ("3", "3.", ".5", "3.0").
IsDecimal(s) ==
    /\ s # <<>>
    /\ IntPart(s) = <<>> \/ IsDigits(IntPart(s))
    /\ FracPart(s) = <<>> \/ IsDigits(FracPart(s))
    /\ IntPart(s) # <<>> \/ FracPart(s) # <<>>

IsInfWord(s) ==
    LowerSeq(s) \in {<<"i", "n", "f">>, <<"i", "n", "f", "i", "n", "i", "t", "y">>}

IsNanWord(s) == LowerSeq(s) = <<"n", "a", "n">>

\* Whether float(line) returns a value; otherwise it raises ValueError.
IsFloatLiteral(line) ==
    LET u == Unsigned(Strip(line)) IN
    IsDecimal(u) \/ IsInfWord(u) \/ IsNanWord(u)

\* The value float(line) returns, for a line IsFloatLiteral accepts whose
\* value is an integer (no non-zero digit after the point).
FloatValue(line) ==
    LET t == Strip(line)
        u == Unsigned(t)
    IN  IF IsNanWord(u) THEN NaN
        ELSE IF IsInfWord(u) THEN Inf(HasMinus(t))
        ELSE Fin(HasMinus(t), DigitsVal(IntPart(u)))

-----------------------------------------------------------------------------
(* format(float): the text an f-string writes for a float *)

RECURSIVE IntStr(_)
IntStr(n) ==
    IF n < 10 THEN DigitChars[n + 1]
    ELSE IntStr(n \div 10) \o DigitChars[(n % 10) + 1]

\* repr() of a float of the fragment: "3.0", "-0.0", "inf", "-inf", "nan"
\* (magnitudes below 10^16, which repr() writes without an exponent).
FloatStr(v) ==
    IF v.k = "nan" THEN "nan"
    ELSE IF v.k = "inf" THEN (IF v.neg THEN "-inf" ELSE "inf")
    ELSE (IF v.neg THEN "-" ELSE "") \o IntStr(v.mag) \o ".0"

-----------------------------------------------------------------------------
(* The arithmetic functions *)

add(a, b) == FAdd(a, b)

\* Variant: the operands exchanged.
subtract_swapped(a, b) == FSub(b, a)
subtract(a, b) == FSub(a, b)

multiply(a, b) == FMul(a, b)

-----------------------------------------------------------------------------
(* Input lines and output records *)

L_1 == <<"1">>
L_2 == <<"2">>
L_3 == <<"3">>
L_q == <<"q">>
L_4 == <<"4">>
L_5 == <<"5">>
L_x == <<"x">>
L_10 == <<"1", "0">>
L_negzero == <<"-", "0">>
L_padded == <<" ", "3", ".", "0", " ">>
L_inf == <<"i", "n", "f">>
L_empty == <<>>

\* The lines standard input may deliver.
Lines ==
    {L_1, L_2, L_3, L_q, L_4, L_5, L_x, L_10, L_negzero, L_padded, L_inf, L_empty}

\* The lines of the longer input sequences.
DeepLines == {L_2, L_3, L_5, L_x}

\* What print() and input() write: print() a line, input() its prompt.
Out(kind, text) == [kind |-> kind, text |-> text]

\* Variant: the last menu item missing.
Banner_short ==
    << Out("banner", "Simple Calculator"),
       Out("banner", "1. Add"),
       Out("banner", "2. Subtract") >>
Banner ==
    << Out("banner", "Simple Calculator"),
       Out("banner", "1. Add"),
       Out("banner", "2. Subtract"),
       Out("banner", "3. Multiply") >>

ChoicePrompt == Out("prompt", "\nEnter choice (1/2/3) or 'q' to quit: ")
FirstPrompt == Out("prompt", "Enter first number: ")
SecondPrompt == Out("prompt", "Enter second number: ")

InvalidInput == Out("invalid_input", "Invalid input! Please enter valid numbers.")
InvalidChoice == Out("invalid_choice", "Invalid choice! Please enter 1, 2, or 3.")

\* Variants: "5" quits too; nothing quits.
IsQuit_or5(c) == c \in {L_q, L_5}
IsQuit_never(c) == FALSE
\* choice == 'q'
IsQuit(c) == c = L_q

\* Variants: "5" is an operation too; "3" is not one.
IsOperation_with5(c) == c \in {L_1, L_2, L_3, L_5}
IsOperation_no3(c) == c \in {L_1, L_2}
\* choice in ['1', '2', '3']
IsOperation(c) == c \in {L_1, L_2, L_3}

\* Variant: the except clause prints nothing.
ExceptValueError_silent(out) == out
\* The except clause: what it appends to the output.
ExceptValueError(out) == Append(out, InvalidInput)

\* The if/elif chain of the try block, entered with choice c and the two
\* parsed operands: the value bound to result and the line printed.  No
\* branch is taken when c is none of '1', '2', '3'.
Compute(c, a, b) ==
    IF c = L_1
    THEN LET r == add(a, b) IN
         [taken |-> TRUE, result |-> r,
          line |-> Out("result",
                       FloatStr(a) \o " + " \o FloatStr(b) \o " = " \o FloatStr(r))]
    ELSE IF c = L_2
    THEN LET r == subtract(a, b) IN
         [taken |-> TRUE, result |-> r,
          line |-> Out("result",
                       FloatStr(a) \o " - " \o FloatStr(b) \o " = " \o FloatStr(r))]
    ELSE IF c = L_3
    THEN LET r == multiply(a, b) IN
         [taken |-> TRUE, result |-> r,
          line |-> Out("result",
                       FloatStr(a) \o " * " \o FloatStr(b) \o " = " \o FloatStr(r))]
    ELSE [taken |-> FALSE, result |-> Unbound, line |-> Out("result", "")]

-----------------------------------------------------------------------------
(* The state of main() *)

VARIABLES
    pc,        \* where main() is: "START", "PROMPTING", "AWAITING_FIRST",
               \* "AWAITING_SECOND", "TERMINATED" or "CRASHED"
    choice,    \* the local choice
    num1,      \* the local num1
    num2,      \* the local num2
    result,    \* the local result
    reads,     \* the lines input() has returned so far, each with the call
               \* that read it: "choice", "first" or "second"
    stdout,    \* everything written to standard output so far
    iterIn,    \* Len(reads) when the current loop iteration began
    iterOut    \* Len(stdout) when the current loop iteration began

vars == <<pc, choice, num1, num2, result, reads, stdout, iterIn, iterOut>>

Read(line, role) == [line |-> line, role |-> role]

\* The lines read, and the output written, by the current iteration (at
\* "PROMPTING": by the iteration that just ended).
IterIn == SubSeq(reads, iterIn + 1, Len(reads))
IterOut == SubSeq(stdout, iterOut + 1, Len(stdout))

Init ==
    /\ pc = "START"
    /\ choice = <<"unbound">>
    /\ num1 = Unbound
    /\ num2 = Unbound
    /\ result = Unbound
    /\ reads = <<>>
    /\ stdout = <<>>
    /\ iterIn = 0
    /\ iterOut = 0

\* The four print() calls before the loop.
Startup ==
    /\ pc = "START"
    /\ stdout' = stdout \o Banner
    /\ pc' = "PROMPTING"
    /\ iterOut' = Len(stdout')
    /\ UNCHANGED <<choice, num1, num2, result, reads, iterIn>>

\* The top of the loop body: input() returns line as the choice; the quit
\* test, the membership test and the else branch follow.
ReadChoice(line) ==
    /\ pc = "PROMPTING"
    /\ reads' = Append(reads, Read(line, "choice"))
    /\ iterIn' = Len(reads)
    /\ iterOut' = Len(stdout)
    /\ choice' = line
    /\ LET out == Append(stdout, ChoicePrompt) IN
       IF IsQuit(line)
       THEN pc' = "TERMINATED" /\ stdout' = out
       ELSE IF IsOperation(line)
       THEN pc' = "AWAITING_FIRST" /\ stdout' = out
       ELSE pc' = "PROMPTING" /\ stdout' = Append(out, InvalidChoice)
    /\ UNCHANGED <<num1, num2, result>>

\* Variant: a first operand that fails to parse is not reported; the second
\* operand is read all the same.
ReadFirst_deferred(line) ==
    /\ pc = "AWAITING_FIRST"
    /\ reads' = Append(reads, Read(line, "first"))
    /\ stdout' = Append(stdout, FirstPrompt)
    /\ num1' = IF IsFloatLiteral(line) THEN FloatValue(line) ELSE NaN
    /\ pc' = "AWAITING_SECOND"
    /\ UNCHANGED <<choice, num2, result, iterIn, iterOut>>
\* num1 = float(input("Enter first number: ")), with the except clause
\* when float() raises ValueError.
ReadFirst(line) ==
    /\ pc = "AWAITING_FIRST"
    /\ reads' = Append(reads, Read(line, "first"))
    /\ LET out == Append(stdout, FirstPrompt) IN
       IF IsFloatLiteral(line)
       THEN /\ num1' = FloatValue(line)
            /\ stdout' = out
            /\ pc' = "AWAITING_SECOND"
       ELSE /\ num1' = num1
            /\ stdout' = ExceptValueError(out)
            /\ pc' = "PROMPTING"
    /\ UNCHANGED <<choice, num2, result, iterIn, iterOut>>

\* Variant: num2 keeps the value an earlier iteration bound to it.
ReadSecond_stale(line) ==
    /\ pc = "AWAITING_SECOND"
    /\ reads' = Append(reads, Read(line, "second"))
    /\ LET out == Append(stdout, SecondPrompt) IN
       IF IsFloatLiteral(line)
       THEN LET b == IF num2 = Unbound THEN FloatValue(line) ELSE num2
                c == Compute(choice, num1, b)
            IN  /\ num2' = b
                /\ result' = c.result
                /\ stdout' = Append(out, c.line)
       ELSE /\ UNCHANGED <<num2, result>>
            /\ stdout' = ExceptValueError(out)
    /\ pc' = "PROMPTING"
    /\ UNCHANGED <<choice, num1, iterIn, iterOut>>
\* num2 = float(input("Enter second number: ")), then the if/elif chain
\* that computes and prints, with the except clause when float() raises
\* ValueError.
ReadSecond(line) ==
    /\ pc = "AWAITING_SECOND"
    /\ reads' = Append(reads, Read(line, "second"))
    /\ LET out == Append(stdout, SecondPrompt) IN
       IF IsFloatLiteral(line)
       THEN LET c == Compute(choice, num1, FloatValue(line)) IN
            /\ num2' = FloatValue(line)
            /\ result' = IF c.taken THEN c.result ELSE result
            /\ stdout' = IF c.taken THEN Append(out, c.line) ELSE out
       ELSE /\ UNCHANGED <<num2, result>>
            /\ stdout' = ExceptValueError(out)
    /\ pc' = "PROMPTING"
    /\ UNCHANGED <<choice, num1, iterIn, iterOut>>

\* Standard input ends: the pending input() writes its prompt and raises
\* EOFError, which the except clause (ValueError only) does not catch, so
\* it leaves main() and the interpreter exits with a traceback.
EndOfInput ==
    /\ pc \in {"PROMPTING", "AWAITING_FIRST", "AWAITING_SECOND"}
    /\ stdout' = Append(stdout,
                        CASE pc = "PROMPTING" -> ChoicePrompt
                          [] pc = "AWAITING_FIRST" -> FirstPrompt
                          [] pc = "AWAITING_SECOND" -> SecondPrompt)
    /\ iterIn' = IF pc = "PROMPTING" THEN Len(reads) ELSE iterIn
    /\ iterOut' = IF pc = "PROMPTING" THEN Len(stdout) ELSE iterOut
    /\ pc' = "CRASHED"
    /\ UNCHANGED <<choice, num1, num2, result, reads>>

\* Standard input still has a line to deliver, in an input sequence of at
\* most max lines.
CanRead(max) == Len(reads) < max

Next ==
    \/ Startup
    \/ \E line \in Lines : CanRead(MaxReads) /\ ReadChoice(line)
    \/ \E line \in Lines : CanRead(MaxReads) /\ ReadFirst(line)
    \/ \E line \in Lines : CanRead(MaxReads) /\ ReadSecond(line)
    \/ EndOfInput

Spec == Init /\ [][Next]_vars

\* The same program on longer input sequences over fewer lines, so that an
\* operation iteration can follow a whole earlier operation iteration.
NextDeep ==
    \/ Startup
    \/ \E line \in DeepLines : CanRead(MaxDeepReads) /\ ReadChoice(line)
    \/ \E line \in DeepLines : CanRead(MaxDeepReads) /\ ReadFirst(line)
    \/ \E line \in DeepLines : CanRead(MaxDeepReads) /\ ReadSecond(line)
    \/ EndOfInput

SpecDeep == Init /\ [][NextDeep]_vars

-----------------------------------------------------------------------------
(* Properties *)

Kinds(s) == [i \in 1..Len(s) |-> s[i].kind]

LinesOf(s) == [i \in 1..Len(s) |-> s[i].line]

RolesOf(s) == [i \in 1..Len(s) |-> s[i].role]

IsMessage(r) == r.kind \in {"result", "invalid_input", "invalid_choice"}

\* The lines print() wrote in the loop, prompts left out.
Messages(s) == SelectSeq(s, IsMessage)

\* The choices that select an operation, as the specification lists them.
OpLines == {<<"1">>, <<"2">>, <<"3">>}

Awaiting == {"AWAITING_FIRST", "AWAITING_SECOND"}

\* A loop iteration has run to its end and the loop is back at the prompt.
IterationCompleted == pc = "PROMPTING" /\ IterIn # <<>>

\* C1: TERMINATED is entered only from PROMPTING and only by reading "q" as
\* the menu choice; a line read as an operand, "q" included, never
\* terminates, and no other line read as the choice does.
C1_TerminatedOnlyByQuitChoice ==
    [][ /\ (pc' = "TERMINATED" /\ pc # "TERMINATED") =>
              /\ pc = "PROMPTING"
              /\ reads' = Append(reads, Read(<<"q">>, "choice"))
        /\ (pc \in Awaiting /\ Len(reads') > Len(reads)) => pc' # "TERMINATED"
        /\ (pc = "PROMPTING" /\ Len(reads') > Len(reads)
              /\ reads'[Len(reads')].line # <<"q">>) => pc' # "TERMINATED"
      ]_vars

\* "q" was read as the second operand, did not terminate the program, and a
\* later "q" read as the choice did.
C1_Witness ==
    /\ pc = "TERMINATED"
    /\ \E i \in 1..Len(reads) : reads[i] = Read(<<"q">>, "second")

\* C2: in an operation iteration, an operand that fails to parse ends the
\* iteration with the invalid-input message as its only message (no result
\* line), and the loop is back at PROMPTING.
C2_ParseFailureReportedLoopContinues ==
    \A i \in 2..Len(IterIn) :
        (IterIn[1].line \in OpLines /\ ~IsFloatLiteral(IterIn[i].line)) =>
            /\ pc = "PROMPTING"
            /\ i = Len(IterIn)
            /\ Messages(IterOut) =
                 <<Out("invalid_input", "Invalid input! Please enter valid numbers.")>>

\* The second operand "x" of a multiplication failed to parse.
C2_Witness ==
    /\ pc = "PROMPTING"
    /\ LinesOf(IterIn) = <<L_3, L_4, L_x>>
    /\ Kinds(Messages(IterOut)) = <<"invalid_input">>

\* C3: a choice that is none of "1", "2", "3", "q" gets the invalid-choice
\* message and nothing else after the prompt, no operand is prompted for or
\* read, and the next line read is read as a menu choice.
C3_InvalidChoiceReportedNoOperands ==
    \A i \in 1..Len(reads) :
        (reads[i].role = "choice" /\ reads[i].line \notin OpLines \cup {<<"q">>}) =>
            /\ i < Len(reads) => reads[i + 1].role = "choice"
            /\ i = Len(reads) => pc \in {"PROMPTING", "CRASHED"}
            /\ (i = Len(reads) /\ pc = "PROMPTING") =>
                 IterOut = <<ChoicePrompt,
                             Out("invalid_choice",
                                 "Invalid choice! Please enter 1, 2, or 3.")>>

\* "5" was read as the choice and the line after it was read as a choice.
C3_Witness ==
    /\ Len(reads) = 2
    /\ reads[1] = Read(L_5, "choice")
    /\ reads[2] = Read(L_x, "choice")
    /\ Kinds(Messages(stdout)) = <<"invalid_choice", "invalid_choice">>

\* C4: an operation iteration whose two operands parse to a and b prints
\* exactly one result line, "<a> <symbol> <b> = <result>" with "+" for "1",
\* "-" for "2" and "*" for "3", a and b being the operands in the order
\* entered; for finite a and b the result is the integer sum, difference or
\* product of a and b.
C4_ResultLineMatchesReferenceArithmetic ==
    (/\ IterationCompleted
     /\ Len(IterIn) = 3
     /\ IterIn[1].line \in OpLines
     /\ IsFloatLiteral(IterIn[2].line)
     /\ IsFloatLiteral(IterIn[3].line)) =>
        LET c == IterIn[1].line
            a == FloatValue(IterIn[2].line)
            b == FloatValue(IterIn[3].line)
            sym == CASE c = <<"1">> -> " + "
                     [] c = <<"2">> -> " - "
                     [] c = <<"3">> -> " * "
            ref == CASE c = <<"1">> -> IntOf(a) + IntOf(b)
                     [] c = <<"2">> -> IntOf(a) - IntOf(b)
                     [] c = <<"3">> -> IntOf(a) * IntOf(b)
        IN  /\ num1 = a
            /\ num2 = b
            /\ Messages(IterOut) =
                 <<Out("result",
                       FloatStr(a) \o sym \o FloatStr(b) \o " = " \o FloatStr(result))>>
            /\ (a.k = "fin" /\ b.k = "fin") =>
                 (result.k = "fin" /\ IntOf(result) = ref)

\* The subtraction 10 - 4 was entered and "10.0 - 4.0 = 6.0" printed.
C4_Witness ==
    /\ IterationCompleted
    /\ LinesOf(IterIn) = <<L_2, L_10, L_4>>
    /\ stdout[Len(stdout)] = Out("result", "10.0 - 4.0 = 6.0")

\* C5 as stated: every completed iteration with an operation choice makes
\* exactly three reads (choice, first operand, second operand), also when an
\* operand fails to parse; every iteration with an invalid choice makes
\* exactly one.
C5_AlwaysThreeReads ==
    IterationCompleted =>
        RolesOf(IterIn) = IF IterIn[1].line \in OpLines
                          THEN <<"choice", "first", "second">>
                          ELSE <<"choice">>

\* C5 as amended: three reads when the first operand parses (also when the
\* second then fails), two reads (choice, first operand) when the first
\* operand fails to parse, one read for an invalid choice.
C5_ThreeReadsUnlessFirstOperandFails ==
    IterationCompleted =>
        RolesOf(IterIn) = IF IterIn[1].line \notin OpLines
                          THEN <<"choice">>
                          ELSE IF Len(IterIn) >= 2 /\ IsFloatLiteral(IterIn[2].line)
                          THEN <<"choice", "first", "second">>
                          ELSE <<"choice", "first">>

\* An operation iteration ended after two reads: its first operand was "x".
C5_Witness ==
    /\ IterationCompleted
    /\ IterIn = <<Read(L_3, "choice"), Read(L_x, "first")>>

\* C6: a "q" read as the menu choice is the last line ever read; the program
\* is then TERMINATED, the only output of that iteration is the prompt that
\* preceded the read, and no step is possible any more.
C6_QuitStopsReadsAndOutput ==
    /\ \A i \in 1..Len(reads) :
          reads[i] = Read(<<"q">>, "choice") =>
              /\ i = Len(reads)
              /\ pc = "TERMINATED"
              /\ IterOut = <<ChoicePrompt>>
              /\ stdout[Len(stdout)] = ChoicePrompt
    /\ pc = "TERMINATED" => ~ENABLED Next

\* "q" was the first line read, with the rest of the input still unread.
C6_Witness ==
    /\ pc = "TERMINATED"
    /\ reads = <<Read(L_q, "choice")>>
    /\ Len(stdout) = 5

\* C7: main() never leaves by an uncaught exception: it is at a prompt, or
\* has terminated through "q".
C7_NoAbnormalExit ==
    pc \in {"START", "PROMPTING", "AWAITING_FIRST", "AWAITING_SECOND", "TERMINATED"}

\* C8: the four startup lines are written once, before any read; each
\* completed iteration writes exactly one message line (a result, the
\* invalid-input or the invalid-choice line); an iteration that has not
\* completed, or that quits, has written none.
C8_OutputShape ==
    /\ pc = "START" => (stdout = <<>> /\ reads = <<>>)
    /\ pc # "START" =>
          /\ Len(stdout) >= 4
          /\ SubSeq(stdout, 1, 4) =
               << Out("banner", "Simple Calculator"), Out("banner", "1. Add"),
                  Out("banner", "2. Subtract"), Out("banner", "3. Multiply") >>
          /\ \A i \in 5..Len(stdout) : stdout[i].kind # "banner"
    /\ IterationCompleted =>
          /\ Len(Messages(IterOut)) = 1
          /\ IterOut[Len(IterOut)] = Messages(IterOut)[1]
    /\ pc \in Awaiting \cup {"TERMINATED", "CRASHED"} => Messages(IterOut) = <<>>

\* A result line and then an invalid-choice line followed the startup lines.
C8_Witness ==
    /\ IterationCompleted
    /\ Len(reads) = 4
    /\ Kinds(Messages(stdout)) = <<"result", "invalid_choice">>

\* What one iteration writes, as a function of the lines it reads alone.
IterationOutput(ls) ==
    IF ls[1] \notin OpLines
    THEN <<ChoicePrompt, InvalidChoice>>
    ELSE IF ~IsFloatLiteral(ls[2])
    THEN <<ChoicePrompt, FirstPrompt, InvalidInput>>
    ELSE IF ~IsFloatLiteral(ls[3])
    THEN <<ChoicePrompt, FirstPrompt, SecondPrompt, InvalidInput>>
    ELSE <<ChoicePrompt, FirstPrompt, SecondPrompt,
           Compute(ls[1], FloatValue(ls[2]), FloatValue(ls[3])).line>>

\* C9: the output of a completed iteration is a function of the lines read
\* in that iteration only, whatever earlier iterations left in num1, num2
\* and result.
C9_IterationOutputDependsOnItsInputsOnly ==
    IterationCompleted => IterOut = IterationOutput(LinesOf(IterIn))

\* A second operation iteration completed while num1, num2 and result still
\* held the values of an earlier one, which differ from its own operands.
C9_Witness ==
    /\ IterationCompleted
    /\ Len(reads) = 6
    /\ LinesOf(reads) = <<L_2, L_5, L_3, L_3, L_2, L_5>>
    /\ stdout[Len(stdout)] = Out("result", "2.0 * 5.0 = 10.0")

\* C10: a first operand that fails to parse ends the iteration at once: the
\* invalid-input message follows the first-operand prompt, no second operand
\* is prompted for or read, and the next line is read as a menu choice.  On
\* the input "1", "x", "4", "q" the "4" is an invalid choice and the "q"
\* terminates.
C10_FirstOperandFailureSkipsSecondRead ==
    /\ \A i \in 1..Len(reads) :
          (reads[i].role = "first" /\ ~IsFloatLiteral(reads[i].line)) =>
              /\ i < Len(reads) => reads[i + 1].role = "choice"
              /\ i = Len(reads) => pc \in {"PROMPTING", "CRASHED"}
              /\ (i = Len(reads) /\ pc = "PROMPTING") =>
                   IterOut = <<ChoicePrompt, FirstPrompt, InvalidInput>>
    /\ LinesOf(reads) = <<L_1, L_x, L_4, L_q>> =>
          /\ pc = "TERMINATED"
          /\ RolesOf(reads) = <<"choice", "first", "choice", "choice">>
          /\ Kinds(Messages(stdout)) = <<"invalid_input", "invalid_choice">>

\* The input "1", "x", "4", "q" was read to its end.
C10_Witness ==
    /\ LinesOf(reads) = <<L_1, L_x, L_4, L_q>>
    /\ pc = "TERMINATED"

=============================================================================
